---- MODULE Spec2Model ----
(***************************************************************************)
(* Plain provisioner BundleInstance controller                             *)
(* (internal/provisioner/plain/controllers/bundleinstance_controller.go).  *)
(*                                                                         *)
(* One reconciliation pass (Reconcile) per BundleInstance key at a time,   *)
(* passes of different keys interleaved at every call that reads or writes *)
(* state outside the pass: the API server (BundleInstance, Bundle), the    *)
(* bundle storage, the helm release backend, and the reconciler's watch    *)
(* registry (dynamicWatchGVKs under dynamicWatchMutex).                    *)
(***************************************************************************)
EXTENDS Naturals, Sequences, FiniteSets, TLC

\* ------------------------------------------------------------------ bounds
\* Disturbances in one behaviour: environment events (unpacker phase changes,
\* spec edits, release edits) plus injected faults (a call that returns an
\* error although its target is there, a process restart).
MaxEvents == 2
\* Release revisions kept by the backend per release name.
MaxVersion == 2

\* ------------------------------------------------------------- the cluster
BIs == {"inst-a", "inst-b"}
\* Bundles that exist, and a name no Bundle has.
Bundles == {"pkg-a", "pkg-b"}
MissingBundle == "pkg-missing"
BundleNames == Bundles \cup { MissingBundle }

PhasePending == "Pending"
PhaseUnpacking == "Unpacking"
PhaseFailing == "Failing"
PhaseUnpacked == "Unpacked"
\* Bundle.Status.Phase is omitempty: a Bundle nobody reconciled yet has "".
Phases == {"", PhasePending, PhaseUnpacking, PhaseFailing, PhaseUnpacked}
Absent == "<absent>"

TypeHasValidBundle == "HasValidBundle"
TypeInvalidBundleContent == "InvalidBundleContent"
TypeInstalled == "Installed"

ConditionTrue == "True"
ConditionFalse == "False"
ConditionUnknown == "Unknown"

ReasonBundleLookupFailed == "BundleLookupFailed"
ReasonBundleLoadFailed == "BundleLoadFailed"
ReasonReadingContentFailed == "ReadingContentFailed"
ReasonErrorGettingClient == "ErrorGettingClient"
ReasonErrorGettingReleaseState == "ErrorGettingReleaseState"
ReasonInstallFailed == "InstallFailed"
ReasonUpgradeFailed == "UpgradeFailed"
ReasonReconcileFailed == "ReconcileFailed"
ReasonCreateDynamicWatchFailed == "CreateDynamicWatchFailed"
ReasonInstallationSucceeded == "InstallationSucceeded"

stateNeedsInstall == "NeedsInstall"
stateNeedsUpgrade == "NeedsUpgrade"
stateUnchanged == "Unchanged"
stateError == "Error"
\* the zero value of releaseState, before getReleaseState has run
stateNone == ""

StatusDeployed == "deployed"
StatusFailed == "failed"
StatusSuperseded == "superseded"

OwnerKindKey == "core.rukpak.io/owner-kind"
OwnerNameKey == "core.rukpak.io/owner-name"

\* ------------------------------------------------------------------ errors
\* An error value: what errors.Is / errors.As / apierrors.IsNotFound see of it
\* (kind) and what Error() prints (msg).
Nil == [kind |-> "nil", msg |-> ""]
ErrNotFound(what) == [kind |-> "NotFound", msg |-> what \o " not found"]
ErrOther(what) == [kind |-> "Other", msg |-> what]
ErrReleaseNotFound == [kind |-> "ErrReleaseNotFound", msg |-> "release: not found"]

IsNotFound(err) == err.kind = "NotFound"
IgnoreNotFound(err) == IF IsNotFound(err) THEN Nil ELSE err
\* fmt.Errorf("<prefix>: %w", err): the chain keeps the kind, the text grows.
Wrap(prefix, err) == [kind |-> err.kind, msg |-> prefix \o ": " \o err.msg]

errBundleNotUnpacked(currentPhase) ==
    [kind |-> "errBundleNotUnpacked",
     msg |-> IF currentPhase = ""
             THEN "bundle is not yet unpacked"
             ELSE "bundle is not yet unpacked" \o ", current phase=" \o currentPhase]
IsBundleNotUnpacked(err) == err.kind = "errBundleNotUnpacked"

\* -------------------------------------------------------------- conditions
Condition(type, status, reason, message) ==
    [type |-> type, status |-> status, reason |-> reason, message |-> message]

\* Setting a condition by appending it.
SetStatusCondition_Append(conds, new) == Append(conds, new)

\* meta.SetStatusCondition: replace the entry of the same type, else append.
SetStatusCondition(conds, new) ==
    IF \E i \in 1..Len(conds) : conds[i].type = new.type
    THEN [i \in 1..Len(conds) |-> IF conds[i].type = new.type THEN new ELSE conds[i]]
    ELSE Append(conds, new)

FindStatusCondition(conds, type) ==
    IF \E i \in 1..Len(conds) : conds[i].type = type
    THEN conds[CHOOSE i \in 1..Len(conds) : conds[i].type = type]
    ELSE Condition(type, "", "", "")

\* ----------------------------------------------------------------- objects
\* The manifest objects bundle storage holds for each Bundle, in storage order.
Obj(kind, name, labels) == [kind |-> kind, name |-> name, labels |-> labels]
NoLabels == [k \in {} |-> ""]
StoredObjects(b) ==
    IF b = "pkg-a"
    THEN << Obj("ConfigMap", "cm-a", [k \in {"app"} |-> "a"]),
            Obj("Deployment", "dep-a", NoLabels) >>
    ELSE << Obj("ConfigMap", "cm-b", [k \in {OwnerNameKey} |-> "someone-else"]) >>

Kinds == {"ConfigMap", "Deployment"}

\* util.MergeMaps: the later map wins on a shared key.
MergeMaps(a, b) ==
    [k \in (DOMAIN a) \cup (DOMAIN b) |-> IF k \in DOMAIN b THEN b[k] ELSE a[k]]

OwnerLabels(name) ==
    [k \in {OwnerKindKey, OwnerNameKey} |->
        IF k = OwnerKindKey THEN "BundleInstance" ELSE name]

\* A labelling loop that sets the owner labels in place of the stored ones.
LabelObjects_Replacing(objects, name) ==
    [i \in 1..Len(objects) |-> [objects[i] EXCEPT !.labels = OwnerLabels(name)]]

\* loadBundle's labelling loop over the stored objects.
LabelObjects(objects, name) ==
    [i \in 1..Len(objects) |->
        [objects[i] EXCEPT !.labels = MergeMaps(objects[i].labels, OwnerLabels(name))]]

\* yaml.Marshal: kind, name, then the labels as key/value pairs in key order.
KeyOrder == << "app", OwnerKindKey, OwnerNameKey >>
RECURSIVE LabelPairs(_, _)
LabelPairs(labels, i) ==
    IF i > Len(KeyOrder) THEN << >>
    ELSE (IF KeyOrder[i] \in DOMAIN labels
          THEN << KeyOrder[i], labels[KeyOrder[i]] >>
          ELSE << >>) \o LabelPairs(labels, i + 1)
Marshal(obj) == << obj.kind, obj.name >> \o LabelPairs(obj.labels, 1)

\* A stand-in for the first 8 bytes of sha256: a 16-bit polynomial checksum
\* over the code of each serialized token.
TokenCode(s) ==
    CASE s = "ConfigMap" -> 3 [] s = "Deployment" -> 5 [] s = "cm-a" -> 7
      [] s = "dep-a" -> 11 [] s = "cm-b" -> 13 [] s = "app" -> 17 [] s = "a" -> 19
      [] s = OwnerKindKey -> 23 [] s = OwnerNameKey -> 29 [] s = "BundleInstance" -> 31
      [] s = "inst-a" -> 37 [] s = "inst-b" -> 41 [] OTHER -> 43
RECURSIVE Sum256(_, _, _)
Sum256(data, i, acc) ==
    IF i > Len(data) THEN acc
    ELSE Sum256(data, i + 1, (acc * 31 + TokenCode(data[i])) % (2^16))

TemplateFile(obj) ==
    [Name |-> << "object-", Sum256(Marshal(obj), 1, 7), ".yaml" >>, Data |-> Marshal(obj)]

\* A marshalling loop that prepends each template.
ChartOf_Prepending(objs) == [i \in 1..Len(objs) |-> TemplateFile(objs[Len(objs) + 1 - i])]

\* The chart of a whole object list (Reconcile's marshalling loop run to its end).
ChartOf(objs) == [i \in 1..Len(objs) |-> TemplateFile(objs[i])]

\* ---------------------------------------------------------------- releases
NoRelease == [manifest |-> << >>, status |-> "", version |-> 0]
\* The release backend renders a chart by concatenating its templates in order.
RECURSIVE Render(_)
Render(chart) ==
    IF chart = << >> THEN << >> ELSE Head(chart).Data \o Render(Tail(chart))

\* ------------------------------------------------------------------- state
VARIABLES
    biStore,            \* API server: each BundleInstance's spec and status
    bundles,            \* API server: each Bundle's status.phase, or Absent
    releases,           \* release backend: the latest release of each name
    dynamicWatchGVKs,   \* BundleInstanceReconciler.dynamicWatchGVKs
    dynamicWatchMutex,  \* holder of dynamicWatchMutex, "" when unlocked
    watches,            \* Controller: Watch calls that succeeded, per kind
    pass,               \* each key's Reconcile call in progress: locals and position
    last,               \* each key's previous Reconcile call, as it ended
    ext,                \* environment events so far
    faults              \* injected faults so far

vars == << biStore, bundles, releases, dynamicWatchGVKs, dynamicWatchMutex,
           watches, pass, last, ext, faults >>

BundleInstance(spec, conds, installed) ==
    [spec |-> spec, conds |-> conds, installed |-> installed]

\* The locals of a Reconcile call that has not started.
IdlePass ==
    [pc |-> "idle",
     bi |-> BundleInstance("", << >>, ""),
     b |-> "", loadPhase |-> "",
     desiredObjects |-> << >>, chrt |-> << >>,
     rel |-> NoRelease, state |-> stateNone,
     idx |-> 0, isWatched |-> FALSE,
     err |-> Nil, result |-> Nil,
     \* what the call has done so far
     calls |-> << >>, sets |-> << >>, exit |-> "", applied |-> "", watched |-> {},
     startExt |-> 0, startRel |-> NoRelease]

NoLast ==
    [ended |-> "never", state |-> stateNone, applied |-> "", chrt |-> << >>,
     calls |-> << >>, startExt |-> 0, startRel |-> NoRelease, endRel |-> NoRelease,
     result |-> Nil, patches |-> 0]

\* A change from outside ends every run of successive calls "with no change in
\* between": of the calls before it only the outcome is remembered.
Forget(l) == [NoLast EXCEPT !.ended = l.ended, !.result = l.result, !.patches = l.patches]

\* What a call leaves behind when it ends: `how` is "ok" or "failed" (the outcome
\* of its status patch), or "crashed". `result` is the error Reconcile returned and
\* `patches` the number of status patches the call attempted. Of a call that a
\* change from outside overtook, only the outcome is remembered.
Summary(bi, how) ==
    LET whole == [ended |-> how, state |-> pass[bi].state, applied |-> pass[bi].applied,
                  chrt |-> pass[bi].chrt, calls |-> pass[bi].calls,
                  startExt |-> pass[bi].startExt, startRel |-> pass[bi].startRel,
                  endRel |-> releases[bi],
                  result |-> IF how = "crashed" THEN Nil ELSE pass[bi].result,
                  patches |-> IF how = "crashed" THEN 0 ELSE 1]
    IN  IF pass[bi].startExt = ext THEN whole ELSE Forget(whole)

\* A key whose BundleInstance does not exist.
NoBundleInstance == BundleInstance(Absent, << >>, "")
Exists(bi) == biStore[bi] # NoBundleInstance

\* The process after SetupWithManager, no Reconcile call started, no release yet.
Started ==
    /\ releases = [bi \in BIs |-> NoRelease]
    /\ dynamicWatchGVKs = {}
    /\ dynamicWatchMutex = ""
    /\ watches = [k \in Kinds |-> 0]
    /\ pass = [bi \in BIs |-> IdlePass]
    /\ last = [bi \in BIs |-> NoLast]
    /\ ext = 0

\* One BundleInstance, naming a Bundle that is being unpacked or is unpacked, or a
\* Bundle that does not exist; the unpacker brings about the other phases.
Init ==
    /\ Started
    /\ biStore \in { f \in [BIs -> { NoBundleInstance, BundleInstance("pkg-a", << >>, ""),
                                      BundleInstance(MissingBundle, << >>, "") }] :
                        f["inst-a"] # NoBundleInstance /\ f["inst-b"] = NoBundleInstance }
    /\ bundles \in { f \in [BundleNames -> Phases \cup { Absent }] :
                        /\ f[MissingBundle] = Absent
                        /\ f["pkg-a"] \in { PhaseUnpacking, PhaseUnpacked }
                        /\ f["pkg-b"] = PhaseUnpacked }
    /\ faults = 0

\* Two BundleInstances whose Bundles are unpacked and share a kind, and room for
\* one disturbance.
InitConc ==
    /\ Started
    /\ biStore = [bi \in BIs |->
                    BundleInstance(IF bi = "inst-a" THEN "pkg-a" ELSE "pkg-b", << >>, "")]
    /\ bundles = [b \in BundleNames |-> IF b = MissingBundle THEN Absent ELSE PhaseUnpacked]
    /\ faults = MaxEvents - 1

\* A step that injects a fault when `f` holds.
Fault(f) ==
    /\ f => ext + faults < MaxEvents
    /\ faults' = faults + (IF f THEN 1 ELSE 0)

\* A backend call as the release backend sees it.
Call(op, dryRun, createNamespace) ==
    [op |-> op, DryRun |-> dryRun, CreateNamespace |-> createNamespace]

\* A failure exit that also advances the installed bundle name.
SetAndReturn_Advancing(p, exit, cond, err, result) ==
    [p EXCEPT !.pc = "patch",
              !.bi.conds = SetStatusCondition(@, cond),
              !.bi.installed = p.bi.spec,
              !.sets = Append(@, cond),
              !.exit = exit,
              !.err = err,
              !.result = result]

\* `return ctrl.Result{}, result` after meta.SetStatusCondition(&bi.Status.Conditions,
\* cond), on the failure exit `exit` taken for the error `err`: the deferred status
\* patch is what runs next.
SetAndReturn(p, exit, cond, err, result) ==
    [p EXCEPT !.pc = "patch",
              !.bi.conds = SetStatusCondition(@, cond),
              !.sets = Append(@, cond),
              !.exit = exit,
              !.err = err,
              !.result = result]

\* ------------------------------------------------------------- Reconcile
\* The errors r.Get of the BundleInstance can return now (Nil: it is found).
BundleInstanceGetErrors(bi) ==
    { ErrOther("get bundleinstance: timeout") } \cup
    (IF Exists(bi) THEN { Nil } ELSE { ErrNotFound("bundleinstance " \o bi) })

\* r.Get(ctx, req.NamespacedName, bi). When it fails Reconcile returns at once:
\* nothing is deferred yet, so nothing is patched. A call for a key whose object is
\* gone returns nil and leaves no trace; a call that could not read its object is
\* remembered as "unfetched".
GetBundleInstance(bi) ==
    /\ pass[bi].pc = "idle"
    /\ \E err \in BundleInstanceGetErrors(bi) :
          /\ Fault(err.kind = "Other")
          /\ IF err = Nil
             THEN /\ pass' = [pass EXCEPT ![bi] =
                        [IdlePass EXCEPT !.pc = "getBundle", !.bi = biStore[bi],
                                         !.startExt = ext, !.startRel = releases[bi]]]
                  /\ UNCHANGED last
             ELSE /\ last' = IF IsNotFound(err)
                             THEN last
                             ELSE [last EXCEPT ![bi] = [NoLast EXCEPT !.ended = "unfetched",
                                                                  !.result = IgnoreNotFound(err)]]
                  /\ UNCHANGED pass
    /\ UNCHANGED << biStore, bundles, releases, dynamicWatchGVKs, dynamicWatchMutex,
                    watches, ext >>

\* The errors r.Get of the Bundle named `name` can return now (Nil: it is found).
BundleGetErrors(name) ==
    { ErrOther("get bundle: timeout") } \cup
    (IF bundles[name] = Absent THEN { ErrNotFound("bundle " \o name) } ELSE { Nil })

\* A handling of the first Bundle lookup that reports every lookup error as a
\* Bundle that does not exist.
LookupBundle_AlwaysFalse(p, err, phase) ==
    IF err # Nil
    THEN SetAndReturn(p, "lookup",
            Condition(TypeHasValidBundle, ConditionFalse, ReasonBundleLookupFailed, err.msg),
            err, IgnoreNotFound(err))
    ELSE [p EXCEPT !.pc = "loadBundle", !.b = phase]

\* A handling of the first Bundle lookup that returns every lookup error.
LookupBundle_ReturnsErr(p, err, phase) ==
    IF err # Nil
    THEN SetAndReturn(p, "lookup",
            Condition(TypeHasValidBundle,
                      IF IsNotFound(err) THEN ConditionFalse ELSE ConditionUnknown,
                      ReasonBundleLookupFailed, err.msg),
            err, err)
    ELSE [p EXCEPT !.pc = "loadBundle", !.b = phase]

\* Reconcile's handling of the first Bundle lookup.
LookupBundle(p, err, phase) ==
    IF err # Nil
    THEN SetAndReturn(p, "lookup",
            Condition(TypeHasValidBundle,
                      IF IsNotFound(err) THEN ConditionFalse ELSE ConditionUnknown,
                      ReasonBundleLookupFailed, err.msg),
            err, IgnoreNotFound(err))
    ELSE [p EXCEPT !.pc = "loadBundle", !.b = phase]

GetBundle(bi) ==
    /\ pass[bi].pc = "getBundle"
    /\ \E err \in BundleGetErrors(pass[bi].bi.spec) :
          /\ Fault(err.kind = "Other")
          /\ pass' = [pass EXCEPT ![bi] = LookupBundle(@, err, bundles[pass[bi].bi.spec])]
    /\ UNCHANGED << biStore, bundles, releases, dynamicWatchGVKs, dynamicWatchMutex,
                    watches, last, ext >>

\* A phase test that lets a Bundle still being unpacked through.
IsUnpacked_OrUnpacking(phase) == phase \in { PhaseUnpacked, PhaseUnpacking }

\* A phase test against the wrong phase constant.
IsUnpacked_WrongPhase(phase) == phase = PhasePending

\* loadBundle's phase test.
IsUnpacked(phase) == phase = PhaseUnpacked

\* loadBundle, given what its r.Get and BundleStorage.Load return.
loadBundle(getErr, phase, loadErr, objects, name, bundleName) ==
    IF getErr # Nil
    THEN [objs |-> << >>, err |-> Wrap("get bundle " \o bundleName, getErr)]
    ELSE IF ~IsUnpacked(phase)
    THEN [objs |-> << >>, err |-> errBundleNotUnpacked(phase)]
    ELSE IF loadErr # Nil
    THEN [objs |-> << >>, err |-> Wrap("load bundle objects", loadErr)]
    ELSE [objs |-> LabelObjects(objects, name), err |-> Nil]

\* The reason of the not-yet-unpacked condition, from the Bundle Reconcile fetched.
UnpackReason(phase) ==
    IF phase = PhaseUnpacking THEN "BundleUnpackRunning" ELSE "BundleUnpack" \o phase

\* A handling of loadBundle's result that reports a Bundle not yet unpacked as a
\* load failure.
AfterLoad_NoWait(p, loaded) ==
    IF loaded.err # Nil
    THEN SetAndReturn(p, "load",
            Condition(TypeHasValidBundle, ConditionFalse, ReasonBundleLoadFailed,
                      loaded.err.msg),
            loaded.err, loaded.err)
    ELSE [p EXCEPT !.pc = "marshal", !.desiredObjects = loaded.objs]

\* Reconcile's handling of loadBundle's result.
AfterLoad(p, loaded) ==
    IF loaded.err # Nil
    THEN IF IsBundleNotUnpacked(loaded.err)
         THEN SetAndReturn(p, "wait",
                 Condition(TypeInstalled, ConditionFalse, UnpackReason(p.b), ""),
                 loaded.err, Nil)
         ELSE SetAndReturn(p, "load",
                 Condition(TypeHasValidBundle, ConditionFalse, ReasonBundleLoadFailed,
                           loaded.err.msg),
                 loaded.err, loaded.err)
    ELSE [p EXCEPT !.pc = "marshal", !.desiredObjects = loaded.objs]

LoadBundle(bi) ==
    /\ pass[bi].pc = "loadBundle"
    /\ \E getErr \in BundleGetErrors(pass[bi].bi.spec),
          loadErr \in { Nil, ErrOther("read error") } :
          LET name == pass[bi].bi.spec
              phase == IF getErr = Nil THEN bundles[name] ELSE ""
              loaded == loadBundle(getErr, phase, loadErr, StoredObjects(name), bi, name)
          IN  /\ loadErr # Nil => getErr = Nil /\ IsUnpacked(phase)
              /\ Fault(getErr.kind = "Other" \/ loadErr # Nil)
              /\ pass' = [pass EXCEPT ![bi] =
                            AfterLoad([@ EXCEPT !.loadPhase = phase], loaded)]
    /\ UNCHANGED << biStore, bundles, releases, dynamicWatchGVKs, dynamicWatchMutex,
                    watches, last, ext >>

\* The marshalling loop: yaml.Marshal fails for object `bad` (0: for none).
Materialize(p, bad) ==
    IF bad # 0
    THEN SetAndReturn(p, "content",
            Condition(TypeInvalidBundleContent, ConditionTrue, ReasonReadingContentFailed,
                      ErrOther("yaml: marshal error").msg),
            ErrOther("yaml: marshal error"), ErrOther("yaml: marshal error"))
    ELSE [p EXCEPT !.pc = "getClient", !.chrt = ChartOf(p.desiredObjects)]

MaterializeChart(bi) ==
    /\ pass[bi].pc = "marshal"
    /\ \E bad \in 0..Len(pass[bi].desiredObjects) :
          /\ Fault(bad # 0)
          /\ pass' = [pass EXCEPT ![bi] = Materialize(@, bad)]
    /\ UNCHANGED << biStore, bundles, releases, dynamicWatchGVKs, dynamicWatchMutex,
                    watches, last, ext >>

\* A handling of the client error that returns it without setting a condition.
AfterClient_Silent(p, err) ==
    IF err # Nil
    THEN [p EXCEPT !.pc = "patch", !.exit = "client", !.err = err, !.result = err]
    ELSE [p EXCEPT !.pc = "getRelease"]

\* Reconcile's handling of r.ActionClientGetter.ActionClientFor(bi).
AfterClient(p, err) ==
    IF err # Nil
    THEN SetAndReturn(p, "client",
            Condition(TypeInstalled, ConditionFalse, ReasonErrorGettingClient, err.msg),
            err, err)
    ELSE [p EXCEPT !.pc = "getRelease"]

ActionClientFor(bi) ==
    /\ pass[bi].pc = "getClient"
    /\ \E err \in { Nil, ErrOther("action client: no rest config") } :
          /\ Fault(err # Nil)
          /\ pass' = [pass EXCEPT ![bi] = AfterClient(@, err)]
    /\ UNCHANGED << biStore, bundles, releases, dynamicWatchGVKs, dynamicWatchMutex,
                    watches, last, ext >>

\* getReleaseState without the test for a failed release.
getReleaseState_NoFailed(getErr, currentRelease, dryErr, desiredRelease) ==
    IF getErr # Nil /\ getErr # ErrReleaseNotFound
    THEN [rel |-> NoRelease, state |-> stateError, err |-> getErr]
    ELSE IF getErr = ErrReleaseNotFound
    THEN [rel |-> NoRelease, state |-> stateNeedsInstall, err |-> Nil]
    ELSE IF dryErr # Nil
    THEN [rel |-> currentRelease, state |-> stateError, err |-> dryErr]
    ELSE IF \/ desiredRelease.manifest # currentRelease.manifest
            \/ currentRelease.status = StatusSuperseded
    THEN [rel |-> currentRelease, state |-> stateNeedsUpgrade, err |-> Nil]
    ELSE [rel |-> currentRelease, state |-> stateUnchanged, err |-> Nil]

\* getReleaseState that asks for an install whenever the manifests agree, also when
\* cl.Get found a release.
getReleaseState_InstallAgain(getErr, currentRelease, dryErr, desiredRelease) ==
    IF getErr # Nil /\ getErr # ErrReleaseNotFound
    THEN [rel |-> NoRelease, state |-> stateError, err |-> getErr]
    ELSE IF getErr = ErrReleaseNotFound
    THEN [rel |-> NoRelease, state |-> stateNeedsInstall, err |-> Nil]
    ELSE IF dryErr # Nil
    THEN [rel |-> currentRelease, state |-> stateError, err |-> dryErr]
    ELSE IF \/ desiredRelease.manifest # currentRelease.manifest
            \/ currentRelease.status = StatusFailed
            \/ currentRelease.status = StatusSuperseded
    THEN [rel |-> currentRelease, state |-> stateNeedsUpgrade, err |-> Nil]
    ELSE [rel |-> currentRelease, state |-> stateNeedsInstall, err |-> Nil]

\* getReleaseState without the test for a superseded release.
getReleaseState_NoSuperseded(getErr, currentRelease, dryErr, desiredRelease) ==
    IF getErr # Nil /\ getErr # ErrReleaseNotFound
    THEN [rel |-> NoRelease, state |-> stateError, err |-> getErr]
    ELSE IF getErr = ErrReleaseNotFound
    THEN [rel |-> NoRelease, state |-> stateNeedsInstall, err |-> Nil]
    ELSE IF dryErr # Nil
    THEN [rel |-> currentRelease, state |-> stateError, err |-> dryErr]
    ELSE IF \/ desiredRelease.manifest # currentRelease.manifest
            \/ currentRelease.status = StatusFailed
    THEN [rel |-> currentRelease, state |-> stateNeedsUpgrade, err |-> Nil]
    ELSE [rel |-> currentRelease, state |-> stateUnchanged, err |-> Nil]

\* getReleaseState that reports a failed dry run by the state alone.
getReleaseState_SilentError(getErr, currentRelease, dryErr, desiredRelease) ==
    IF getErr # Nil /\ getErr # ErrReleaseNotFound
    THEN [rel |-> NoRelease, state |-> stateError, err |-> getErr]
    ELSE IF getErr = ErrReleaseNotFound
    THEN [rel |-> NoRelease, state |-> stateNeedsInstall, err |-> Nil]
    ELSE IF dryErr # Nil
    THEN [rel |-> currentRelease, state |-> stateError, err |-> Nil]
    ELSE IF \/ desiredRelease.manifest # currentRelease.manifest
            \/ currentRelease.status = StatusFailed
            \/ currentRelease.status = StatusSuperseded
    THEN [rel |-> currentRelease, state |-> stateNeedsUpgrade, err |-> Nil]
    ELSE [rel |-> currentRelease, state |-> stateUnchanged, err |-> Nil]

\* getReleaseState, given what cl.Get and the dry-run cl.Upgrade return
\* (the dry run is not reached when cl.Get fails).
getReleaseState(getErr, currentRelease, dryErr, desiredRelease) ==
    IF getErr # Nil /\ getErr # ErrReleaseNotFound
    THEN [rel |-> NoRelease, state |-> stateError, err |-> getErr]
    ELSE IF getErr = ErrReleaseNotFound
    THEN [rel |-> NoRelease, state |-> stateNeedsInstall, err |-> Nil]
    ELSE IF dryErr # Nil
    THEN [rel |-> currentRelease, state |-> stateError, err |-> dryErr]
    ELSE IF \/ desiredRelease.manifest # currentRelease.manifest
            \/ currentRelease.status = StatusFailed
            \/ currentRelease.status = StatusSuperseded
    THEN [rel |-> currentRelease, state |-> stateNeedsUpgrade, err |-> Nil]
    ELSE [rel |-> currentRelease, state |-> stateUnchanged, err |-> Nil]

\* A handling of getReleaseState's result that goes on to the switch whatever it is.
AfterReleaseState_Ignoring(p, r) ==
    [p EXCEPT !.pc = "apply", !.rel = r.rel, !.state = r.state]

\* Reconcile's handling of getReleaseState's result.
AfterReleaseState(p, r) ==
    IF r.err # Nil
    THEN SetAndReturn([p EXCEPT !.rel = r.rel, !.state = r.state], "state",
            Condition(TypeInstalled, ConditionFalse, ReasonErrorGettingReleaseState,
                      r.err.msg),
            r.err, r.err)
    ELSE [p EXCEPT !.pc = "apply", !.rel = r.rel, !.state = r.state]

\* The errors cl.Get(name) can return now (Nil: the release is found).
ReleaseGetErrors(name) ==
    { ErrOther("release storage: timeout") } \cup
    (IF releases[name] = NoRelease THEN { ErrReleaseNotFound } ELSE { Nil })

\* getReleaseState up to its cl.Get; it goes on to the dry run when a release is found.
GetRelease(bi) ==
    /\ pass[bi].pc = "getRelease"
    /\ \E getErr \in ReleaseGetErrors(bi) :
          LET p == [pass[bi] EXCEPT !.calls = Append(@, Call("Get", FALSE, FALSE))]
          IN  /\ Fault(getErr.kind = "Other")
              /\ pass' = [pass EXCEPT ![bi] =
                    IF getErr = Nil
                    THEN [p EXCEPT !.pc = "dryRun", !.rel = releases[bi]]
                    ELSE AfterReleaseState(p,
                            getReleaseState(getErr, NoRelease, Nil, NoRelease))]
    /\ UNCHANGED << biStore, bundles, releases, dynamicWatchGVKs, dynamicWatchMutex,
                    watches, last, ext >>

\* What a dry-run or real install or upgrade of `current` to `chart` yields.
Rendered(chart, current, status) ==
    [manifest |-> Render(chart), status |-> status, version |-> current.version + 1]

\* getReleaseState from its dry-run cl.Upgrade on.
DryRunUpgrade(bi) ==
    /\ pass[bi].pc = "dryRun"
    /\ \E dryErr \in { Nil, ErrOther("upgrade dry run: render error") } :
          LET p == [pass[bi] EXCEPT !.calls = Append(@, Call("Upgrade", TRUE, FALSE))]
              desiredRelease == Rendered(p.chrt, p.rel, "pending-upgrade")
          IN  /\ Fault(dryErr # Nil)
              /\ pass' = [pass EXCEPT ![bi] =
                    AfterReleaseState(p, getReleaseState(Nil, p.rel, dryErr, desiredRelease))]
    /\ UNCHANGED << biStore, bundles, releases, dynamicWatchGVKs, dynamicWatchMutex,
                    watches, last, ext >>

\* A switch whose install lets the backend create the namespace.
ApplyCall_CreateNamespace(state) ==
    CASE state = stateNeedsInstall -> Call("Install", FALSE, TRUE)
      [] state = stateNeedsUpgrade -> Call("Upgrade", FALSE, FALSE)
      [] state = stateUnchanged -> Call("Reconcile", FALSE, FALSE)
      [] OTHER -> Call("", FALSE, FALSE)

\* A switch that upgrades an unchanged release instead of reconciling it.
ApplyCall_UpgradeUnchanged(state) ==
    CASE state = stateNeedsInstall -> Call("Install", FALSE, FALSE)
      [] state = stateNeedsUpgrade -> Call("Upgrade", FALSE, FALSE)
      [] state = stateUnchanged -> Call("Upgrade", FALSE, FALSE)
      [] OTHER -> Call("", FALSE, FALSE)

\* The backend call Reconcile's switch issues for a release state.
ApplyCall(state) ==
    CASE state = stateNeedsInstall -> Call("Install", FALSE, FALSE)
      [] state = stateNeedsUpgrade -> Call("Upgrade", FALSE, FALSE)
      [] state = stateUnchanged -> Call("Reconcile", FALSE, FALSE)
      [] OTHER -> Call("", FALSE, FALSE)

ApplyFailedReason(state) ==
    CASE state = stateNeedsInstall -> ReasonInstallFailed
      [] state = stateNeedsUpgrade -> ReasonUpgradeFailed
      [] OTHER -> ReasonReconcileFailed

\* The releases the backend may hold after the call: a success records a deployed
\* release (Reconcile records nothing), a failure records a failed one or nothing.
ReleaseAfter(op, ok, chart, current) ==
    IF op = "Reconcile" THEN { current }
    ELSE IF ok THEN { Rendered(chart, current, StatusDeployed) }
    ELSE { current, Rendered(chart, current, StatusFailed) }

\* Where the call goes after a successful apply.
AfterApply(p) ==
    [p EXCEPT !.pc = IF Len(p.desiredObjects) = 0 THEN "success" ELSE "watch",
              !.idx = 1,
              !.applied = ApplyCall(p.state).op]

\* Reconcile's switch on the release state.
Apply(bi) ==
    /\ pass[bi].pc = "apply"
    /\ IF ApplyCall(pass[bi].state).op # ""
       THEN \E ok \in BOOLEAN :
            \E after \in ReleaseAfter(ApplyCall(pass[bi].state).op, ok,
                                      pass[bi].chrt, releases[bi]) :
               LET p == [pass[bi] EXCEPT !.calls = Append(@, ApplyCall(pass[bi].state))]
                   err == ErrOther("helm: apply failed")
               IN  /\ after.version <= MaxVersion
                   /\ Fault(~ok)
                   /\ releases' = [releases EXCEPT ![bi] = after]
                   /\ pass' = [pass EXCEPT ![bi] =
                         IF ok THEN AfterApply(p)
                         ELSE SetAndReturn(p, "apply",
                                 Condition(TypeInstalled, ConditionFalse,
                                           ApplyFailedReason(p.state), err.msg),
                                 err, err)]
       ELSE /\ pass' = [pass EXCEPT ![bi] =
                  [@ EXCEPT !.pc = "patch", !.exit = "default",
                            !.err = ErrOther("unexpected release state"),
                            !.result = ErrOther("unexpected release state")]]
            /\ UNCHANGED << releases, faults >>
    /\ UNCHANGED << biStore, bundles, dynamicWatchGVKs, dynamicWatchMutex,
                    watches, last, ext >>

\* ---------------------------------------------------- dynamic watch registry
\* A watch failure that is reported in the condition but not returned.
WatchFailed_Swallowed(p, err) ==
    SetAndReturn(p, "watch",
        Condition(TypeInstalled, ConditionFalse, ReasonCreateDynamicWatchFailed, err.msg),
        err, Nil)

\* Reconcile's handling of an error in the watch loop.
WatchFailed(p, err) ==
    SetAndReturn(p, "watch",
        Condition(TypeInstalled, ConditionFalse, ReasonCreateDynamicWatchFailed, err.msg),
        err, err)

\* runtime.DefaultUnstructuredConverter.ToUnstructured(obj) fails
ToUnstructuredFails(bi) ==
    /\ pass[bi].pc = "watch"
    /\ Fault(TRUE)
    /\ pass' = [pass EXCEPT ![bi] = WatchFailed(@, ErrOther("to unstructured: bad object"))]
    /\ UNCHANGED << biStore, bundles, releases, dynamicWatchGVKs, dynamicWatchMutex,
                    watches, last, ext >>

\* A lock that excludes nobody.
CanLock_Always(holder) == TRUE

\* Whether r.dynamicWatchMutex.Lock() returns now.
CanLock(holder) == holder = ""

\* r.dynamicWatchMutex.Lock()
Lock(bi) ==
    /\ pass[bi].pc = "watch"
    /\ CanLock(dynamicWatchMutex)
    /\ dynamicWatchMutex' = bi
    /\ pass' = [pass EXCEPT ![bi].pc = "locked"]
    /\ UNCHANGED << biStore, bundles, releases, dynamicWatchGVKs,
                    watches, last, ext, faults >>

\* The kind of the object the watch loop is at.
CurrentGVK(p) == p.desiredObjects[p.idx].kind

\* _, isWatched := r.dynamicWatchGVKs[u.GroupVersionKind()]
CheckWatched(bi) ==
    /\ pass[bi].pc = "locked"
    /\ pass' = [pass EXCEPT ![bi].pc = "checked",
                            ![bi].isWatched = CurrentGVK(pass[bi]) \in dynamicWatchGVKs]
    /\ UNCHANGED << biStore, bundles, releases, dynamicWatchGVKs, dynamicWatchMutex,
                    watches, last, ext, faults >>

\* A watch loop that stops after its first object.
NextObject_FirstOnly(p) == [p EXCEPT !.idx = @ + 1, !.pc = "success"]

\* The loop's next position once the closure returned nil.
NextObject(p) ==
    [p EXCEPT !.idx = @ + 1,
              !.pc = IF p.idx + 1 > Len(p.desiredObjects) THEN "success" ELSE "watch"]

\* A registry that holds only the kind subscribed last.
Registered_OnlyLatest(gvks, gvk) == { gvk }

\* The registry after a successful Controller.Watch for `gvk`.
Registered(gvks, gvk) == gvks \cup { gvk }

\* The rest of the closure: Controller.Watch when the kind is not watched, the
\* insertion, the deferred Unlock, and Reconcile's handling of the closure's error.
RegisterWatch(bi) ==
    /\ pass[bi].pc = "checked"
    /\ dynamicWatchMutex' = ""
    /\ LET gvk == CurrentGVK(pass[bi])
       IN  IF pass[bi].isWatched
           THEN /\ pass' = [pass EXCEPT ![bi] = NextObject(@)]
                /\ UNCHANGED << dynamicWatchGVKs, watches, faults >>
           ELSE \E ok \in BOOLEAN :
                  /\ Fault(~ok)
                  /\ IF ok
                     THEN /\ watches' = [watches EXCEPT ![gvk] = @ + 1]
                          /\ dynamicWatchGVKs' = Registered(dynamicWatchGVKs, gvk)
                          /\ pass' = [pass EXCEPT ![bi] =
                                        NextObject([@ EXCEPT !.watched = @ \cup { gvk }])]
                     ELSE /\ pass' = [pass EXCEPT ![bi] =
                                        WatchFailed(@, ErrOther("watch: no kind match"))]
                          /\ UNCHANGED << dynamicWatchGVKs, watches >>
    /\ UNCHANGED << biStore, bundles, releases, last, ext >>

\* A success exit that also declares the Bundle valid.
Succeed_MarkingValid(p) ==
    [p EXCEPT !.pc = "patch",
              !.bi.conds = SetStatusCondition(
                   SetStatusCondition(@, Condition(TypeHasValidBundle, ConditionTrue,
                                                   "BundleValid", "")),
                   Condition(TypeInstalled, ConditionTrue, ReasonInstallationSucceeded, "")),
              !.sets = Append(@,
                   Condition(TypeInstalled, ConditionTrue, ReasonInstallationSucceeded, "")),
              !.bi.installed = p.bi.spec,
              !.exit = "success",
              !.result = Nil]

\* Reconcile's last statements.
Succeed(p) ==
    [p EXCEPT !.pc = "patch",
              !.bi.conds = SetStatusCondition(@,
                   Condition(TypeInstalled, ConditionTrue, ReasonInstallationSucceeded, "")),
              !.sets = Append(@,
                   Condition(TypeInstalled, ConditionTrue, ReasonInstallationSucceeded, "")),
              !.bi.installed = p.bi.spec,
              !.exit = "success",
              !.result = Nil]

InstallationSucceeded(bi) ==
    /\ pass[bi].pc = "success"
    /\ pass' = [pass EXCEPT ![bi] = Succeed(@)]
    /\ UNCHANGED << biStore, bundles, releases, dynamicWatchGVKs, dynamicWatchMutex,
                    watches, last, ext, faults >>

\* A patch that carries the conditions but not the installed bundle name.
Patched_ConditionsOnly(stored, copy) ==
    [stored EXCEPT !.conds = copy.conds]

\* The status the API server holds after the patch of the call's copy.
Patched(stored, copy) ==
    [stored EXCEPT !.conds = copy.conds, !.installed = copy.installed]

\* The deferred r.Status().Patch of the call's copy; Reconcile returns after it.
PatchStatus(bi) ==
    /\ pass[bi].pc = "patch"
    /\ \E ok \in BOOLEAN :
          /\ Fault(~ok)
          /\ biStore' = IF ok
                        THEN [biStore EXCEPT ![bi] = Patched(@, pass[bi].bi)]
                        ELSE biStore
          /\ last' = [last EXCEPT ![bi] = Summary(bi, IF ok THEN "ok" ELSE "failed")]
    /\ pass' = [pass EXCEPT ![bi] = IdlePass]
    /\ UNCHANGED << bundles, releases, dynamicWatchGVKs, dynamicWatchMutex,
                    watches, ext >>

\* ------------------------------------------------------------- environment
\* A BundleInstance, or a call's copy of one, names the Bundle.
Named(b) ==
    \E bi \in BIs :
        \/ biStore[bi].spec = b
        \/ pass[bi].pc # "idle" /\ pass[bi].bi.spec = b

\* The unpacker (the Bundle controller) writes the Bundle's phase. A write to a
\* Bundle nobody names commutes with every step of Reconcile up to the UpdateSpec
\* that names it, so only the writes to named Bundles are enumerated.
UnpackerSetsPhase(b, phase) ==
    /\ ext + faults < MaxEvents
    /\ Named(b)
    /\ bundles[b] \notin { Absent, phase }
    /\ bundles' = [bundles EXCEPT ![b] = phase]
    /\ ext' = ext + 1
    /\ last' = [k \in BIs |-> Forget(last[k])]
    /\ UNCHANGED << biStore, releases, dynamicWatchGVKs, dynamicWatchMutex,
                    watches, pass, faults >>

\* A user points the BundleInstance at another Bundle.
UpdateSpec(bi, b) ==
    /\ ext + faults < MaxEvents
    /\ Exists(bi)
    /\ biStore[bi].spec # b
    /\ biStore' = [biStore EXCEPT ![bi].spec = b]
    /\ ext' = ext + 1
    /\ last' = [k \in BIs |-> Forget(last[k])]
    /\ UNCHANGED << bundles, releases, dynamicWatchGVKs, dynamicWatchMutex,
                    watches, pass, faults >>

\* The release backend's record is given another status from outside the controller.
ReleaseStatusChanges(name, status) ==
    /\ ext + faults < MaxEvents
    /\ releases[name] # NoRelease
    /\ releases[name].status # status
    /\ releases' = [releases EXCEPT ![name].status = status]
    /\ ext' = ext + 1
    /\ last' = [k \in BIs |-> Forget(last[k])]
    /\ UNCHANGED << biStore, bundles, dynamicWatchGVKs, dynamicWatchMutex,
                    watches, pass, faults >>

\* The process dies and is started again: every call in progress is lost with its
\* deferred patch, and SetupWithManager builds a new controller and an empty registry.
Restart ==
    /\ \E bi \in BIs : pass[bi].pc # "idle"
    /\ Fault(TRUE)
    /\ last' = [bi \in BIs |->
                  IF pass[bi].pc = "idle" THEN last[bi] ELSE Summary(bi, "crashed")]
    /\ pass' = [bi \in BIs |-> IdlePass]
    /\ dynamicWatchGVKs' = {}
    /\ dynamicWatchMutex' = ""
    /\ watches' = [k \in Kinds |-> 0]
    /\ UNCHANGED << biStore, bundles, releases, ext >>

Next ==
    \/ \E bi \in BIs :
          \/ GetBundleInstance(bi)
          \/ GetBundle(bi)
          \/ LoadBundle(bi)
          \/ MaterializeChart(bi)
          \/ ActionClientFor(bi)
          \/ GetRelease(bi)
          \/ DryRunUpgrade(bi)
          \/ Apply(bi)
          \/ ToUnstructuredFails(bi)
          \/ Lock(bi)
          \/ CheckWatched(bi)
          \/ RegisterWatch(bi)
          \/ InstallationSucceeded(bi)
          \/ PatchStatus(bi)
    \/ \E b \in Bundles, phase \in Phases : UnpackerSetsPhase(b, phase)
    \/ \E bi \in BIs, b \in BundleNames : UpdateSpec(bi, b)
    \/ \E bi \in BIs, status \in { StatusFailed, StatusSuperseded } :
          ReleaseStatusChanges(bi, status)
    \/ Restart

Spec == Init /\ [][Next]_vars

\* Reconcile calls of two keys running concurrently.
SpecConc == InitConc /\ [][Next]_vars

\* One BundleInstance naming a Bundle in any phase, and room for one disturbance.
InitLive ==
    /\ Started
    /\ biStore = [bi \in BIs |-> IF bi = "inst-a" THEN BundleInstance("pkg-a", << >>, "")
                                                  ELSE NoBundleInstance]
    /\ bundles \in { f \in [BundleNames -> Phases \cup { Absent }] :
                        /\ f[MissingBundle] = Absent
                        /\ f["pkg-a"] # Absent
                        /\ f["pkg-b"] = PhaseUnpacked }
    /\ faults = MaxEvents - 1

\* A step of the key's Reconcile call.
ReconcileStep(bi) ==
    \/ GetBundleInstance(bi)
    \/ GetBundle(bi)
    \/ LoadBundle(bi)
    \/ MaterializeChart(bi)
    \/ ActionClientFor(bi)
    \/ GetRelease(bi)
    \/ DryRunUpgrade(bi)
    \/ Apply(bi)
    \/ Lock(bi)
    \/ CheckWatched(bi)
    \/ RegisterWatch(bi)
    \/ InstallationSucceeded(bi)
    \/ PatchStatus(bi)

\* The controller's work queue delivers the triggers of the Bundle watch set up in
\* SetupWithManager, and a Reconcile call that has started runs to its return.
Fairness == \A bi \in BIs : WF_vars(ReconcileStep(bi))

SpecLive == InitLive /\ [][Next]_vars /\ Fairness

\* The closure of the watch loop runs to its deferred Unlock once it holds the lock,
\* and sync.Mutex hands the lock to a waiter that has waited long enough (its
\* starvation mode), so a call waiting in Lock() gets the lock if it is released
\* again and again.
FairnessConc ==
    \A bi \in BIs : WF_vars(CheckWatched(bi) \/ RegisterWatch(bi)) /\ SF_vars(Lock(bi))

\* Concurrent Reconcile calls of two keys under a fair registry lock.
SpecConcLive == InitConc /\ [][Next]_vars /\ FairnessConc

\* ================================================================== claims
\* The calls of a pass that apply a release: Install, non-dry-run Upgrade, Reconcile.
IsApplyCall(c) == c.op \in { "Install", "Reconcile" } \/ (c.op = "Upgrade" /\ ~c.DryRun)
ApplyCalls(p) == SelectSeq(p.calls, IsApplyCall)

\* The pass has run getReleaseState to a state other than Error.
Evaluated(p) == p.state \in { stateNeedsInstall, stateNeedsUpgrade, stateUnchanged }

\* The state table of the specification, row by row.
StateTable(exists, sameManifest, status) ==
    CASE ~exists -> stateNeedsInstall
      [] exists /\ ~sameManifest -> stateNeedsUpgrade
      [] exists /\ sameManifest /\ status \in { StatusFailed, StatusSuperseded } ->
            stateNeedsUpgrade
      [] exists /\ sameManifest /\ status \notin { StatusFailed, StatusSuperseded } ->
            stateUnchanged

\* C1: whenever getReleaseState has returned without error, the state it returned is
\* the one the state table gives for (a release was found or not, the dry-run
\* manifest equals the recorded manifest or not, the recorded status).
C1_StateTable ==
    \A bi \in BIs :
        LET p == pass[bi]
        IN  Evaluated(p) =>
              p.state = StateTable(p.rel # NoRelease,
                                   Render(p.chrt) = p.rel.manifest,
                                   p.rel.status)

\* C1 witness: a release with an equal manifest and status superseded was evaluated
\* to NeedsUpgrade.
C1_Witness ==
    \E bi \in BIs :
        /\ pass[bi].state = stateNeedsUpgrade
        /\ pass[bi].rel.status = StatusSuperseded
        /\ Render(pass[bi].chrt) = pass[bi].rel.manifest

\* The objects of the pass whose watch registration is behind it.
PastRegistration(p) ==
    CASE p.pc \in { "watch", "locked", "checked" } -> 1..(p.idx - 1)
      [] p.pc = "success" \/ (p.pc = "patch" /\ p.exit = "success") ->
            1..Len(p.desiredObjects)
      [] OTHER -> {}

\* C2: under every interleaving of the passes, Controller.Watch succeeds at most
\* once per kind, and every pass that is past the registration of an object (having
\* subscribed itself or having found the kind watched) has exactly one subscription
\* for that object's kind behind it.
C2_OneSubscription ==
    /\ \A k \in Kinds : watches[k] <= 1
    /\ \A bi \in BIs : \A i \in PastRegistration(pass[bi]) :
          watches[pass[bi].desiredObjects[i].kind] = 1

\* C2 witness: both passes are at their success exit, ConfigMap is subscribed once,
\* and one of the two passes did not subscribe it itself.
C2_Witness ==
    /\ \A bi \in BIs : pass[bi].pc = "patch" /\ pass[bi].exit = "success"
    /\ watches["ConfigMap"] = 1
    /\ \E bi \in BIs : "ConfigMap" \notin pass[bi].watched

\* The step is the pass's apply call (Install, Upgrade or Reconcile).
ApplyStep(bi) ==
    /\ pass[bi].pc = "apply"
    /\ Len(ApplyCalls(pass'[bi])) > Len(ApplyCalls(pass[bi]))

\* C3 as stated: no apply call is issued while the referenced Bundle's phase is other
\* than Unpacked.
C3_Original ==
    [][\A bi \in BIs : ApplyStep(bi) => bundles[pass[bi].bi.spec] = PhaseUnpacked]_vars

\* C3 amended: an apply call is issued only by a pass whose loadBundle read the
\* referenced Bundle in phase Unpacked.
C3_ApplyOnlyAfterUnpackedRead ==
    \A bi \in BIs : ApplyCalls(pass[bi]) # << >> => pass[bi].loadPhase = PhaseUnpacked

\* C3 witness: a pass has applied, and the Bundle it read as Unpacked is no longer so.
C3_Witness ==
    \E bi \in BIs :
        /\ ApplyCalls(pass[bi]) # << >>
        /\ pass[bi].loadPhase = PhaseUnpacked
        /\ bundles[pass[bi].bi.spec] # PhaseUnpacked

\* The reasons of the not-yet-unpacked condition, as the specification names them.
WaitReason(phase) ==
    CASE phase = PhasePending -> "BundleUnpackPending"
      [] phase = PhaseUnpacking -> "BundleUnpackRunning"
      [] phase = PhaseFailing -> "BundleUnpackFailing"
      [] OTHER -> "BundleUnpack" \o phase

\* C4: a pass that read the Bundle (in Reconcile and in loadBundle) in one phase
\* Pending, Unpacking or Failing is at its exit with no error, has set exactly
\* Installed=False with the phase's reason and so no HasValidBundle condition, and
\* has called neither the release backend nor Controller.Watch.
C4_WaitForUnpack ==
    \A bi \in BIs :
        LET p == pass[bi]
        IN  (p.loadPhase \in { PhasePending, PhaseUnpacking, PhaseFailing }
                /\ p.b = p.loadPhase) =>
              /\ p.pc = "patch"
              /\ p.result = Nil
              /\ p.sets = << Condition(TypeInstalled, ConditionFalse,
                                       WaitReason(p.loadPhase), "") >>
              /\ p.calls = << >>
              /\ p.watched = {}
              /\ p.bi.installed = biStore[bi].installed

\* C4 witness: a pass found its Bundle in phase Unpacking at both reads.
C4_Witness ==
    \E bi \in BIs :
        /\ pass[bi].loadPhase = PhaseUnpacking
        /\ pass[bi].b = PhaseUnpacking
        /\ pass[bi].pc = "patch"

\* C5: the stored installed bundle name changes only in the status patch of a pass
\* that took the success exit, after its apply call succeeded and with the kind of
\* each of its objects registered, and it becomes the bundle name in the spec of the
\* pass's copy of the request.
C5_InstalledOnlyOnSuccess ==
    [][\A bi \in BIs :
          biStore'[bi].installed # biStore[bi].installed =>
            /\ pass[bi].pc = "patch"
            /\ pass[bi].exit = "success"
            /\ pass[bi].applied # ""
            /\ \A i \in 1..Len(pass[bi].desiredObjects) :
                  pass[bi].desiredObjects[i].kind \in dynamicWatchGVKs
            /\ biStore'[bi].installed = pass[bi].bi.spec]_vars

\* C5 witness: a pass that took the success exit has had its status patched.
C5_Witness ==
    \E bi \in BIs :
        /\ biStore[bi].installed = "pkg-a"
        /\ FindStatusCondition(biStore[bi].conds, TypeInstalled).status = ConditionTrue

\* The apply call the specification gives for a release state.
ExpectedApply(state) ==
    CASE state = stateNeedsInstall ->
            [op |-> "Install", DryRun |-> FALSE, CreateNamespace |-> FALSE]
      [] state = stateNeedsUpgrade ->
            [op |-> "Upgrade", DryRun |-> FALSE, CreateNamespace |-> FALSE]
      [] state = stateUnchanged ->
            [op |-> "Reconcile", DryRun |-> FALSE, CreateNamespace |-> FALSE]

\* The pass is past Reconcile's switch on the release state.
PastApply(p) ==
    /\ p.pc \in { "watch", "locked", "checked", "success", "patch" }
    /\ p.exit \notin { "lookup", "wait", "load", "content", "client", "state" }

\* C6: a pass past the Release Applier has issued exactly one apply call, the one of
\* its release state (Install without namespace creation, non-dry-run Upgrade, or
\* Reconcile); a pass not past it has issued none.
C6_OneMatchingApply ==
    \A bi \in BIs :
        LET p == pass[bi]
        IN  IF PastApply(p)
            THEN Evaluated(p) /\ ApplyCalls(p) = << ExpectedApply(p.state) >>
            ELSE ApplyCalls(p) = << >>

\* C6 witness: a pass evaluated NeedsUpgrade and is past its one Upgrade call.
C6_Witness ==
    \E bi \in BIs :
        /\ PastApply(pass[bi])
        /\ pass[bi].state = stateNeedsUpgrade
        /\ Len(ApplyCalls(pass[bi])) = 1

\* The backend calls of a pass that only heals.
HealOnly(calls) ==
    \A i \in 1..Len(calls) :
        \/ calls[i].op = "Get"
        \/ calls[i].op = "Upgrade" /\ calls[i].DryRun
        \/ calls[i].op = "Reconcile"

\* The key's previous pass ran to its status patch, and this one is at its own.
SecondRun(bi) ==
    /\ pass[bi].pc = "patch"
    /\ last[bi].ended \in { "ok", "failed" }

\* C7: when two passes run in succession, both evaluated Unchanged and nothing
\* outside the controller changed from the start of the first to the end of the
\* second, the recorded release (manifest, status, version) is the one the first
\* pass started with, and the backend calls of both are only Get, the dry-run
\* Upgrade and Reconcile.
C7_IdempotentHeal ==
    \A bi \in BIs :
        (/\ SecondRun(bi)
         /\ pass[bi].state = stateUnchanged
         /\ last[bi].state = stateUnchanged
         /\ ext = last[bi].startExt) =>
            /\ releases[bi] = last[bi].startRel
            /\ HealOnly(pass[bi].calls)
            /\ HealOnly(last[bi].calls)
            /\ Len(ApplyCalls(pass[bi])) = 1

\* C7 witness: two passes in succession, both Unchanged, no outside change between.
C7_Witness ==
    \E bi \in BIs :
        /\ SecondRun(bi)
        /\ pass[bi].state = stateUnchanged
        /\ last[bi].state = stateUnchanged
        /\ ext = last[bi].startExt
        /\ pass[bi].exit = "success"

\* The key's previous pass was interrupted (by a restart or a failed status patch)
\* after its Install or Upgrade succeeded, and nothing outside the controller changed
\* since it started.
Interrupted(bi) ==
    /\ last[bi].ended \in { "crashed", "failed" }
    /\ last[bi].applied \in { "Install", "Upgrade" }
    /\ ext = last[bi].startExt

\* The step is an Install call.
InstallStep(bi) ==
    /\ ApplyStep(bi)
    /\ \E i \in 1..Len(pass'[bi].calls) : pass'[bi].calls[i].op = "Install"

\* C8: Install is never issued for a release name that has a recorded release; and
\* the pass after an interrupted one, evaluating the same chart, finds Unchanged,
\* issues no apply call but Reconcile, and when it takes the success exit has
\* Installed=True and the installed bundle name set.
C8_SafeReinvocation ==
    /\ [][\A bi \in BIs : InstallStep(bi) => releases[bi] = NoRelease]_vars
    /\ [](\A bi \in BIs :
            LET p == pass[bi]
            IN  (Interrupted(bi) /\ Evaluated(p) /\ p.chrt = last[bi].chrt) =>
                  /\ p.state = stateUnchanged
                  /\ \A i \in 1..Len(ApplyCalls(p)) : ApplyCalls(p)[i].op = "Reconcile"
                  /\ (p.pc = "patch" /\ p.exit = "success") =>
                        /\ FindStatusCondition(p.bi.conds, TypeInstalled).status
                              = ConditionTrue
                        /\ p.bi.installed = p.bi.spec)

\* C8 witness: the pass after an interrupted Install is at its success exit, having
\* reconciled the release the interrupted pass installed.
C8_Witness ==
    \E bi \in BIs :
        /\ Interrupted(bi)
        /\ last[bi].applied = "Install"
        /\ pass[bi].chrt = last[bi].chrt
        /\ pass[bi].pc = "patch"
        /\ pass[bi].exit = "success"
        /\ pass[bi].applied = "Reconcile"

\* The pass is at an exit other than full success.
FailureExit(p) == p.pc = "patch" /\ p.exit # "success"

\* C9 as stated: of the failure exits, only the not-yet-unpacked one returns no error.
C9_Original ==
    \A bi \in BIs :
        FailureExit(pass[bi]) => (pass[bi].result = Nil <=> pass[bi].exit = "wait")

\* The first lookup of the Bundle found that it does not exist.
BundleNotFoundExit(p) ==
    /\ p.exit = "lookup"
    /\ p.sets = << Condition(TypeHasValidBundle, ConditionFalse,
                             ReasonBundleLookupFailed, p.err.msg) >>
    /\ IsNotFound(p.err)

\* C9 amended: the failure exits that return no error are the not-yet-unpacked one
\* and the one of a Bundle that does not exist at Reconcile's lookup; every other
\* failure exit returns the error.
C9_NilOnlyForWaitAndNotFound ==
    \A bi \in BIs :
        LET p == pass[bi]
        IN  FailureExit(p) =>
              /\ p.result = Nil <=> (p.exit = "wait" \/ BundleNotFoundExit(p))
              /\ p.result # Nil => p.result = p.err

\* C9 witness: the lookup of a Bundle that does not exist ended the pass with no error.
C9_Witness ==
    \E bi \in BIs :
        /\ FailureExit(pass[bi])
        /\ BundleNotFoundExit(pass[bi])
        /\ pass[bi].result = Nil

\* The condition the specification's vocabulary gives each failure category.
CategoryCondition(exit) ==
    CASE exit = "lookup" -> [type |-> TypeHasValidBundle,
                             reasons |-> { "BundleLookupFailed" }]
      [] exit = "load" -> [type |-> TypeHasValidBundle, reasons |-> { "BundleLoadFailed" }]
      [] exit = "wait" -> [type |-> TypeInstalled,
                           reasons |-> { WaitReason(ph) : ph \in Phases }]
      [] exit = "content" -> [type |-> TypeInvalidBundleContent,
                              reasons |-> { "ReadingContentFailed" }]
      [] exit = "client" -> [type |-> TypeInstalled, reasons |-> { "ErrorGettingClient" }]
      [] exit = "state" -> [type |-> TypeInstalled,
                            reasons |-> { "ErrorGettingReleaseState" }]
      [] exit = "apply" -> [type |-> TypeInstalled,
                            reasons |-> { "InstallFailed", "UpgradeFailed",
                                          "ReconcileFailed" }]
      [] exit = "watch" -> [type |-> TypeInstalled,
                            reasons |-> { "CreateDynamicWatchFailed" }]
      [] OTHER -> [type |-> "", reasons |-> {}]

\* The pass set exactly one condition, of its failure category's type and reason.
OneCategoryCondition(p) ==
    /\ Len(p.sets) = 1
    /\ p.sets[1].type = CategoryCondition(p.exit).type
    /\ p.sets[1].reason \in CategoryCondition(p.exit).reasons
    /\ FindStatusCondition(p.bi.conds, p.sets[1].type) = p.sets[1]

\* C10 as stated: a pass at a failure exit has set exactly one condition, with its
\* category's reason and the underlying error's message.
C10_Original ==
    \A bi \in BIs :
        FailureExit(pass[bi]) =>
          /\ OneCategoryCondition(pass[bi])
          /\ pass[bi].sets[1].message = pass[bi].err.msg

\* C10 amended: a pass that fetched its request and is at a failure exit has set
\* exactly one condition, with its category's reason; the message is the underlying
\* error's message, except at the not-yet-unpacked exit, where it is empty.
C10_OneConditionPerFailure ==
    \A bi \in BIs :
        LET p == pass[bi]
        IN  FailureExit(p) =>
              /\ OneCategoryCondition(p)
              /\ p.err # Nil
              /\ p.sets[1].message = IF p.exit = "wait" THEN "" ELSE p.err.msg

\* C10 witness: a pass is at the not-yet-unpacked exit with an empty message although
\* the error it handles has one.
C10_Witness ==
    \E bi \in BIs :
        /\ FailureExit(pass[bi])
        /\ pass[bi].exit = "wait"
        /\ pass[bi].sets[1].message = ""
        /\ pass[bi].err.msg # ""

\* The step ends the key's call by a return of Reconcile (not by a restart).
Returns(bi) ==
    /\ pass[bi].pc # "idle"
    /\ pass'[bi].pc = "idle"
    /\ last'[bi].ended # "crashed"

\* The step ends a call of the key, fetched or not, by a return of Reconcile.
Ends(bi) ==
    \/ Returns(bi)
    \/ /\ pass[bi].pc = "idle"
       /\ pass'[bi].pc = "idle"
       /\ last'[bi].ended = "unfetched"
       /\ faults' = faults + 1
       /\ ext' = ext

\* C11 as stated: every call that returns has attempted exactly one status patch.
C11_Original ==
    [][\A bi \in BIs : Ends(bi) => last'[bi].patches = 1]_vars

\* C11 amended: a call that fetched its request returns only through its one status
\* patch, attempted after its last condition or installed-bundle-name update and
\* carrying them; a failed patch leaves the stored status as it was; either way
\* Reconcile returns the result the call had decided before the patch. A call whose
\* fetch of the request fails attempts no patch.
C11_OnePatchAfterFetch ==
    [][\A bi \in BIs :
          /\ Returns(bi) =>
                /\ pass[bi].pc = "patch"
                /\ last'[bi].patches = 1
                /\ last'[bi].result = pass[bi].result
                /\ \/ /\ last'[bi].ended = "ok"
                      /\ biStore'[bi].conds = pass[bi].bi.conds
                      /\ biStore'[bi].installed = pass[bi].bi.installed
                      /\ biStore'[bi].spec = biStore[bi].spec
                   \/ /\ last'[bi].ended = "failed"
                      /\ biStore'[bi] = biStore[bi]
          /\ (pass[bi].pc = "patch" /\ pass'[bi].pc # "idle") => pass'[bi] = pass[bi]
          /\ (Ends(bi) /\ ~Returns(bi)) =>
                /\ last'[bi].ended = "unfetched"
                /\ last'[bi].patches = 0
                /\ biStore' = biStore]_vars

\* C11 witness: a call whose status patch failed has returned the error it had
\* decided, and the stored conditions are still empty.
C11_Witness ==
    \E bi \in BIs :
        /\ last[bi].ended = "failed"
        /\ last[bi].patches = 1
        /\ last[bi].result # Nil
        /\ biStore[bi].conds = << >>
        /\ pass[bi].pc = "idle"

\* The key/value pairs of the labels in a serialized object.
DataLabels(data) ==
    { << data[2 * j + 1], data[2 * j + 2] >> : j \in 1..((Len(data) - 2) \div 2) }

\* The call has handed its chart to the release backend.
ChartHandedOver(p) ==
    \E i \in 1..Len(p.calls) : p.calls[i].op \in { "Install", "Upgrade" }

\* Every object of the chart carries the owner labels of the key `bi`.
CarriesOwnerLabels(bi, p) ==
    /\ Len(p.chrt) = Len(StoredObjects(p.bi.spec))
    /\ \A i \in 1..Len(p.chrt) :
          /\ << OwnerKindKey, "BundleInstance" >> \in DataLabels(p.chrt[i].Data)
          /\ << OwnerNameKey, bi >> \in DataLabels(p.chrt[i].Data)
          /\ Cardinality(DataLabels(p.chrt[i].Data))
                = Cardinality({ l[1] : l \in DataLabels(p.chrt[i].Data) })

\* Every object of the chart has each stored label whose key is not in `except`.
KeepsStoredLabels(p, except) ==
    \A i \in 1..Len(p.chrt) :
        LET stored == StoredObjects(p.bi.spec)[i].labels
        IN  \A k \in DOMAIN stored \ except :
                << k, stored[k] >> \in DataLabels(p.chrt[i].Data)

\* C12 as stated: every object of a chart handed to the release backend carries the
\* two owner labels and every label, key and value, it was stored with.
C12_Original ==
    \A bi \in BIs :
        ChartHandedOver(pass[bi]) =>
            CarriesOwnerLabels(bi, pass[bi]) /\ KeepsStoredLabels(pass[bi], {})

\* C12 amended: every object of a chart handed to the release backend carries
\* owner-kind=BundleInstance and owner-name=<the reconciled request>, each once, and
\* every stored label of any other key with its stored value; a stored value of one
\* of the two owner keys is overwritten.
C12_OwnerLabelsMerged ==
    \A bi \in BIs :
        ChartHandedOver(pass[bi]) =>
            /\ CarriesOwnerLabels(bi, pass[bi])
            /\ KeepsStoredLabels(pass[bi], { OwnerKindKey, OwnerNameKey })

\* C12 witness: the chart of a Bundle whose stored object already has an owner-name
\* label has been handed to the release backend.
C12_Witness ==
    \E bi \in BIs :
        /\ ChartHandedOver(pass[bi])
        /\ pass[bi].bi.spec = "pkg-b"
        /\ << OwnerNameKey, "someone-else" >> \notin DataLabels(pass[bi].chrt[1].Data)
        /\ << OwnerNameKey, bi >> \in DataLabels(pass[bi].chrt[1].Data)

\* The call is at the exit taken because Controller.Watch failed for the kind of the
\* object its watch loop is at.
SubscriptionFailed(p) ==
    /\ p.pc = "patch"
    /\ p.exit = "watch"
    /\ p.err = ErrOther("watch: no kind match")

\* C13: a call whose Controller.Watch failed for a kind is at its exit with that kind
\* neither registered nor subscribed, Installed=False/CreateDynamicWatchFailed with
\* the error's message as the only condition it set, the error as its result, the
\* installed bundle name as stored, and its apply call already done; and whether a
\* call subscribes depends on the registry alone, so a later call tries again.
C13_WatchFailureAborts ==
    \A bi \in BIs :
        LET p == pass[bi]
        IN  /\ SubscriptionFailed(p) =>
                /\ CurrentGVK(p) \notin dynamicWatchGVKs
                /\ CurrentGVK(p) \notin p.watched
                /\ watches[CurrentGVK(p)] = 0
                /\ p.sets = << Condition(TypeInstalled, ConditionFalse,
                                         "CreateDynamicWatchFailed", p.err.msg) >>
                /\ FindStatusCondition(p.bi.conds, TypeInstalled) = p.sets[1]
                /\ p.result = p.err
                /\ p.result # Nil
                /\ p.bi.installed = biStore[bi].installed
                /\ p.applied \in { "Install", "Upgrade", "Reconcile" }
            /\ p.pc = "checked" => (p.isWatched <=> CurrentGVK(p) \in dynamicWatchGVKs)

\* C13 witness: the stored status reports a failed watch of an earlier call, and the
\* call in progress has subscribed.
C13_Witness ==
    \E bi \in BIs :
        /\ FindStatusCondition(biStore[bi].conds, TypeInstalled).reason
              = "CreateDynamicWatchFailed"
        /\ biStore[bi].installed = ""
        /\ releases[bi] # NoRelease
        /\ pass[bi].watched # {}

ConditionTypes == { TypeHasValidBundle, TypeInvalidBundleContent, TypeInstalled }

\* The number of entries of a type in a condition set.
EntriesOf(conds, type) == Cardinality({ i \in 1..Len(conds) : conds[i].type = type })

\* The last condition of a type among those a call has set, if any.
LastSet(sets, type) ==
    LET at == { i \in 1..Len(sets) : sets[i].type = type }
    IN  IF at = {} THEN Condition(type, "", "", "")
        ELSE sets[CHOOSE i \in at : \A j \in at : j <= i]

\* C14: the stored condition set and every call's copy hold at most one entry per
\* type (and only the three types); in a call's copy the entry of a type the call
\* has set is the condition it set last, and the entry of every other type is the
\* stored one.
C14_UpsertByType ==
    \A bi \in BIs :
        /\ \A i \in 1..Len(biStore[bi].conds) : biStore[bi].conds[i].type \in ConditionTypes
        /\ \A type \in ConditionTypes :
              /\ EntriesOf(biStore[bi].conds, type) <= 1
              /\ pass[bi].pc # "idle" =>
                    /\ EntriesOf(pass[bi].bi.conds, type) <= 1
                    /\ FindStatusCondition(pass[bi].bi.conds, type) =
                          IF \E i \in 1..Len(pass[bi].sets) : pass[bi].sets[i].type = type
                          THEN LastSet(pass[bi].sets, type)
                          ELSE FindStatusCondition(biStore[bi].conds, type)

\* C14 witness: the stored set has entries of two types, and a call has replaced the
\* entry of one of them in its copy, the other entry being as stored.
C14_Witness ==
    \E bi \in BIs :
        /\ Len(biStore[bi].conds) = 2
        /\ Len(pass[bi].sets) = 1
        /\ Len(pass[bi].bi.conds) = 2
        /\ pass[bi].bi.conds # biStore[bi].conds

\* The stored status is the one a not-yet-unpacked wait leaves.
Waited(bi) ==
    /\ FindStatusCondition(biStore[bi].conds, TypeInstalled).status = ConditionFalse
    /\ FindStatusCondition(biStore[bi].conds, TypeInstalled).reason
          \in { WaitReason(ph) : ph \in Phases \ { PhaseUnpacked } }
    /\ biStore[bi].installed = ""

\* The Bundle the request names is unpacked, and storage, release backend, watch and
\* status operations succeed from here on (nothing is left to disturb them).
UnpackedAndQuiet(bi) ==
    /\ biStore[bi].spec \in Bundles
    /\ bundles[biStore[bi].spec] = PhaseUnpacked
    /\ ext + faults >= MaxEvents

InstalledFrom(bi) ==
    /\ FindStatusCondition(biStore[bi].conds, TypeInstalled)
          = Condition(TypeInstalled, ConditionTrue, "InstallationSucceeded", "")
    /\ biStore[bi].installed = biStore[bi].spec

\* C15: once a call has ended in the not-yet-unpacked wait and the Bundle is
\* unpacked, with triggers delivered fairly and no further failure, the request
\* eventually has Installed=True/InstallationSucceeded and its installed bundle name
\* is the Bundle's; and a call at the wait exit has returned nil without any further
\* read, backend call or watch.
C15_EventuallyInstalled ==
    /\ \A bi \in BIs : (Waited(bi) /\ UnpackedAndQuiet(bi)) ~> InstalledFrom(bi)
    /\ [](\A bi \in BIs :
            pass[bi].exit = "wait" =>
                /\ pass[bi].pc = "patch"
                /\ pass[bi].result = Nil
                /\ pass[bi].calls = << >>
                /\ pass[bi].watched = {})

\* C15 witness: the stored status is that of a wait, no call is running, and the
\* Bundle has since been unpacked.
C15_Witness ==
    \E bi \in BIs :
        /\ Waited(bi)
        /\ UnpackedAndQuiet(bi)
        /\ pass[bi].pc = "idle"
        /\ ext = 1

\* C16: a call at the not-yet-unpacked exit reports the reason of the phase that
\* loadBundle read when it decided the Bundle was not unpacked, and never
\* BundleUnpackUnpacked.
C16_ReasonFromLoaderPhase ==
    \A bi \in BIs :
        (pass[bi].pc = "patch" /\ pass[bi].exit = "wait") =>
            /\ pass[bi].sets[1].reason = WaitReason(pass[bi].loadPhase)
            /\ pass[bi].sets[1].reason # "BundleUnpackUnpacked"

\* C17: a call whose lookup of the Bundle failed is at its exit having set only
\* HasValidBundle with reason BundleLookupFailed and the lookup error's message,
\* status False when the Bundle does not exist and Unknown otherwise; it has loaded
\* nothing, called no release backend operation and registered no watch, and its
\* Installed condition and installed bundle name are the stored ones.
C17_LookupFailureStops ==
    \A bi \in BIs :
        LET p == pass[bi]
        IN  (p.pc = "patch" /\ p.exit = "lookup") =>
              /\ p.err # Nil
              /\ p.sets = << Condition(TypeHasValidBundle,
                                       IF bundles[p.bi.spec] = Absent /\ IsNotFound(p.err)
                                       THEN ConditionFalse ELSE ConditionUnknown,
                                       "BundleLookupFailed", p.err.msg) >>
              /\ FindStatusCondition(p.bi.conds, TypeHasValidBundle) = p.sets[1]
              /\ p.desiredObjects = << >>
              /\ p.chrt = << >>
              /\ p.calls = << >>
              /\ p.watched = {}
              /\ p.applied = ""
              /\ FindStatusCondition(p.bi.conds, TypeInstalled)
                    = FindStatusCondition(biStore[bi].conds, TypeInstalled)
              /\ p.bi.installed = biStore[bi].installed

\* C17 witness: a request that is installed has a call whose Bundle lookup failed
\* with an error other than not-found.
C17_Witness ==
    \E bi \in BIs :
        /\ pass[bi].pc = "patch"
        /\ pass[bi].exit = "lookup"
        /\ pass[bi].sets[1].status = ConditionUnknown
        /\ pass[bi].bi.installed = "pkg-a"
        /\ FindStatusCondition(pass[bi].bi.conds, TypeInstalled).status = ConditionTrue

\* The release the call read is failed or superseded.
NeedsHealing(rel) == rel # NoRelease /\ rel.status \in { StatusFailed, StatusSuperseded }

\* The call has called cl.Reconcile.
Reconciled(p) == \E i \in 1..Len(p.calls) : p.calls[i].op = "Reconcile"

\* C18: a call that evaluated a failed or superseded release has the state
\* NeedsUpgrade, also when the chart renders the recorded manifest, and its only
\* apply call is a non-dry-run Upgrade; and a call that called Reconcile had read a
\* release that is neither failed nor superseded and whose manifest is the one its
\* chart renders.
C18_SelfHealing ==
    \A bi \in BIs :
        LET p == pass[bi]
        IN  /\ (Evaluated(p) /\ NeedsHealing(p.rel)) =>
                  /\ p.state = stateNeedsUpgrade
                  /\ \A i \in 1..Len(ApplyCalls(p)) :
                        ApplyCalls(p)[i] = [op |-> "Upgrade", DryRun |-> FALSE,
                                            CreateNamespace |-> FALSE]
                  /\ PastApply(p) => Len(ApplyCalls(p)) = 1
            /\ Reconciled(p) =>
                  /\ p.rel # NoRelease
                  /\ p.rel.status \notin { StatusFailed, StatusSuperseded }
                  /\ p.rel.manifest = Render(p.chrt)

\* C18 witness: the previous call's apply failed and left a failed release; this
\* call, with a chart that renders the recorded manifest, has upgraded.
C18_Witness ==
    \E bi \in BIs :
        /\ last[bi].ended \in { "ok", "failed" }
        /\ last[bi].result # Nil
        /\ last[bi].endRel.status = StatusFailed
        /\ pass[bi].rel = last[bi].endRel
        /\ pass[bi].rel.manifest = Render(pass[bi].chrt)
        /\ pass[bi].applied = "Upgrade"

\* The call has set Installed=True/InstallationSucceeded.
SetSucceeded(p) ==
    \E i \in 1..Len(p.sets) :
        p.sets[i] = Condition(TypeInstalled, ConditionTrue, "InstallationSucceeded", "")

\* C19: in every call the chart exists only once the objects are loaded and labelled,
\* the release backend is called only once the chart exists, an apply call is issued
\* only once the state is evaluated, the watch loop is entered and a subscription
\* made only once the apply call has succeeded, Installed=True is set only with the
\* kind of every desired object registered, and nothing follows it but the status
\* write.
C19_StepOrder ==
    \A bi \in BIs :
        LET p == pass[bi]
        IN  /\ p.chrt # << >> =>
                  /\ p.desiredObjects = LabelObjects(StoredObjects(p.bi.spec), bi)
                  /\ p.loadPhase = PhaseUnpacked
            /\ p.calls # << >> => p.chrt # << >>
            /\ ApplyCalls(p) # << >> => Evaluated(p) /\ p.calls[1].op = "Get"
            /\ (p.pc \in { "watch", "locked", "checked", "success" } \/ p.watched # {}) =>
                  /\ p.applied \in { "Install", "Upgrade", "Reconcile" }
                  /\ Len(ApplyCalls(p)) = 1
            /\ p.pc \in { "locked", "checked" } =>
                  \A i \in 1..(p.idx - 1) : p.desiredObjects[i].kind \in dynamicWatchGVKs
            /\ (p.pc = "success" \/ SetSucceeded(p)) =>
                  \A i \in 1..Len(p.desiredObjects) :
                      p.desiredObjects[i].kind \in dynamicWatchGVKs
            /\ SetSucceeded(p) =>
                  /\ p.pc = "patch"
                  /\ p.exit = "success"
                  /\ p.applied # ""

\* C19 witness: a call that installed and then subscribed to both kinds of its
\* objects has set Installed=True and is at its status write.
C19_Witness ==
    \E bi \in BIs :
        /\ SetSucceeded(pass[bi])
        /\ pass[bi].applied = "Install"
        /\ pass[bi].watched = { "ConfigMap", "Deployment" }
        /\ pass[bi].pc = "patch"

\* C20: the chart of a call has one template per loaded object, at the object's
\* position, holding the object's serialized bytes and named from their digest; and
\* a call whose serialization failed is at its exit having set only
\* InvalidBundleContent=True/ReadingContentFailed with the error's message, returning
\* the error, with no chart and no release backend call.
C20_ChartFromObjects ==
    \A bi \in BIs :
        LET p == pass[bi]
            stored == StoredObjects(p.bi.spec)
        IN  /\ (p.chrt # << >> \/ p.calls # << >>) =>
                  /\ Len(p.chrt) = Len(stored)
                  /\ \A i \in 1..Len(p.chrt) :
                        /\ p.chrt[i].Data[1] = stored[i].kind
                        /\ p.chrt[i].Data[2] = stored[i].name
                        /\ p.chrt[i].Data = Marshal(p.desiredObjects[i])
                        /\ p.chrt[i].Name
                              = << "object-", Sum256(p.chrt[i].Data, 1, 7), ".yaml" >>
            /\ (p.pc = "patch" /\ p.exit = "content") =>
                  /\ p.sets = << Condition(TypeInvalidBundleContent, ConditionTrue,
                                           "ReadingContentFailed", p.err.msg) >>
                  /\ p.result = p.err
                  /\ p.result # Nil
                  /\ p.chrt = << >>
                  /\ p.calls = << >>
                  /\ p.watched = {}

\* C20 witness: the two-object chart of pkg-a, in storage order, has been handed to
\* the release backend.
C20_Witness ==
    \E bi \in BIs :
        /\ ChartHandedOver(pass[bi])
        /\ Len(pass[bi].chrt) = 2
        /\ pass[bi].chrt[1].Data[2] = "cm-a"
        /\ pass[bi].chrt[2].Data[2] = "dep-a"
        /\ pass[bi].chrt[1].Name # pass[bi].chrt[2].Name

\* The call left Reconcile through the exit taken when getReleaseState fails.
ReleaseStateExit(p) == p.pc = "patch" /\ p.exit = "state"

\* C21: a call whose release lookup failed (other than with release-not-found) or
\* whose dry-run upgrade failed has state Error and is at its exit, having set only
\* Installed=False/ErrorGettingReleaseState with that error's message and returning
\* that error; it has issued no Install, no real Upgrade and no Reconcile and made no
\* subscription, so the release is the one it started with unless it was changed
\* from outside. No call is in state Error anywhere else.
C21_ReleaseStateError ==
    \A bi \in BIs :
        LET p == pass[bi]
        IN  /\ p.state = stateError <=> ReleaseStateExit(p)
            /\ ReleaseStateExit(p) =>
                  /\ p.err # Nil
                  /\ p.err # ErrReleaseNotFound
                  /\ p.result = p.err
                  /\ p.sets = << Condition(TypeInstalled, ConditionFalse,
                                           "ErrorGettingReleaseState", p.err.msg) >>
                  /\ \/ /\ p.calls = << Call("Get", FALSE, FALSE) >>
                        /\ p.err = ErrOther("release storage: timeout")
                        /\ p.rel = NoRelease
                     \/ /\ p.calls = << Call("Get", FALSE, FALSE), Call("Upgrade", TRUE, FALSE) >>
                        /\ p.err = ErrOther("upgrade dry run: render error")
                        /\ p.rel # NoRelease
                  /\ ApplyCalls(p) = << >>
                  /\ p.applied = ""
                  /\ p.watched = {}
                  /\ p.bi.installed = biStore[bi].installed
                  /\ ext = p.startExt => releases[bi] = p.startRel

\* C21 witness: with a release recorded and a kind registered by an earlier call, a
\* call is at the exit after its dry-run upgrade failed.
C21_Witness ==
    \E bi \in BIs :
        /\ ReleaseStateExit(pass[bi])
        /\ Len(pass[bi].calls) = 2
        /\ releases[bi] # NoRelease
        /\ releases[bi] = pass[bi].startRel
        /\ dynamicWatchGVKs # {}

\* What getReleaseState can return for the key now, whatever cl.Get and the dry run
\* answer and whether or not the rendered manifest is the recorded one.
PossibleReleaseStates(bi) ==
    { getReleaseState(getErr, releases[bi], dryErr, desired) :
        getErr \in { Nil, ErrReleaseNotFound, ErrOther("release storage: timeout") },
        dryErr \in { Nil, ErrOther("upgrade dry run: render error") },
        desired \in { releases[bi], [releases[bi] EXCEPT !.manifest = << "other" >>] } }

InClosure(p) == p.pc \in { "locked", "checked" }

\* The registry and the subscriptions agree, every call's own subscriptions are
\* registered, and the lock is held by exactly the call inside the closure.
RegistryConsistent ==
    /\ \A k \in Kinds : k \in dynamicWatchGVKs <=> watches[k] > 0
    /\ dynamicWatchGVKs \subseteq Kinds
    /\ \A bi \in BIs :
          /\ pass[bi].watched \subseteq dynamicWatchGVKs
          /\ dynamicWatchMutex = bi <=> InClosure(pass[bi])
    /\ dynamicWatchMutex \in BIs \cup { "" }

\* The step starts the process again (a new controller and a new, empty registry).
RestartStep ==
    /\ faults' = faults + 1
    /\ \A bi \in BIs : pass'[bi] = IdlePass
    /\ \E bi \in BIs : pass[bi].pc # "idle"
    /\ dynamicWatchGVKs' = {}
    /\ watches' = [k \in Kinds |-> 0]

\* Within a process the registry only grows, by the one kind a call subscribes; a
\* failed Watch changes neither the registry nor the subscriptions; and every step
\* out of the closure releases the lock.
RegistryStep ==
    /\ RestartStep \/ dynamicWatchGVKs \subseteq dynamicWatchGVKs'
    /\ \A bi \in BIs :
          /\ (~RestartStep /\ dynamicWatchGVKs' # dynamicWatchGVKs
                           /\ pass'[bi].watched # pass[bi].watched) =>
                /\ pass[bi].pc = "checked"
                /\ ~pass[bi].isWatched
                /\ dynamicWatchGVKs' = dynamicWatchGVKs \cup { CurrentGVK(pass[bi]) }
                /\ watches' = [watches EXCEPT ![CurrentGVK(pass[bi])] = 1]
          /\ (pass[bi].pc = "checked" /\ pass'[bi].exit = "watch") =>
                /\ dynamicWatchGVKs' = dynamicWatchGVKs
                /\ watches' = watches
                /\ pass'[bi].watched = pass[bi].watched
          /\ (InClosure(pass[bi]) /\ ~InClosure(pass'[bi])) => dynamicWatchMutex' = ""

\* C23: the registry holds exactly the kinds with a successful Controller.Watch; within
\* a process it only grows; a failed Watch leaves it unchanged and the kinds the call
\* registered before stay registered; the lock is released on every way out of the
\* closure, so it is free again and again and every call waiting for it gets past it.
C23_RegistryGrowsLockReleased ==
    /\ []RegistryConsistent
    /\ [][RegistryStep]_vars
    /\ \A bi \in BIs : (dynamicWatchMutex = bi) ~> (dynamicWatchMutex = "")
    /\ \A bi \in BIs : (pass[bi].pc = "watch") ~> (pass[bi].pc # "watch")

\* C23 witness: a call whose second Controller.Watch failed is at its exit with the
\* kind it registered first still registered, the lock free, and the other key's call
\* waiting for the lock.
C23_Witness ==
    \E bi \in BIs, other \in BIs :
        /\ SubscriptionFailed(pass[bi])
        /\ pass[bi].watched = { "ConfigMap" }
        /\ dynamicWatchGVKs = { "ConfigMap" }
        /\ dynamicWatchMutex = ""
        /\ other # bi
        /\ pass[other].pc = "watch"

\* The condition type an exit writes.
ExitType(exit) == IF exit = "success" THEN TypeInstalled ELSE CategoryCondition(exit).type

\* A condition no exit of Reconcile writes.
NeverWritten(c) ==
    \/ c.type = TypeHasValidBundle /\ c.status = ConditionTrue
    \/ c.type = TypeInvalidBundleContent /\ c.status = ConditionFalse

\* What a call has written so far: conditions of its exit's type only, none of them
\* HasValidBundle=True or InvalidBundleContent=False, every other type in its copy as
\* stored, and the installed bundle name only at the success exit.
WritesOwnTypeOnly ==
    \A bi \in BIs :
        LET p == pass[bi]
        IN  /\ \A i \in 1..Len(biStore[bi].conds) : ~NeverWritten(biStore[bi].conds[i])
            /\ \A i \in 1..Len(p.sets) :
                  /\ ~NeverWritten(p.sets[i])
                  /\ p.sets[i].type = ExitType(p.exit)
            /\ p.pc # "idle" =>
                  /\ \A i \in 1..Len(p.bi.conds) : ~NeverWritten(p.bi.conds[i])
                  /\ \A type \in ConditionTypes :
                        (p.pc # "patch" \/ type # ExitType(p.exit)) =>
                            FindStatusCondition(p.bi.conds, type)
                               = FindStatusCondition(biStore[bi].conds, type)
                  /\ p.bi.installed = IF p.pc = "patch" /\ p.exit = "success"
                                      THEN p.bi.spec ELSE biStore[bi].installed

\* A step that changes a stored status is the status write of that key's call, and
\* it changes the condition of the call's exit type only, plus the installed bundle
\* name when the exit is the success exit.
StatusWriteFrame ==
    \A bi \in BIs :
        (biStore'[bi].conds # biStore[bi].conds
            \/ biStore'[bi].installed # biStore[bi].installed) =>
          /\ pass[bi].pc = "patch"
          /\ pass'[bi].pc = "idle"
          /\ \A type \in ConditionTypes \ { ExitType(pass[bi].exit) } :
                FindStatusCondition(biStore'[bi].conds, type)
                   = FindStatusCondition(biStore[bi].conds, type)
          /\ pass[bi].exit # "success" => biStore'[bi].installed = biStore[bi].installed
          /\ pass[bi].exit = "success" =>
                /\ biStore'[bi].installed = pass[bi].bi.spec
                /\ FindStatusCondition(biStore'[bi].conds, TypeInstalled).status
                      = ConditionTrue

\* C24: a call writes only the condition type of the exit it takes, never
\* HasValidBundle=True nor InvalidBundleContent=False, and the installed bundle name
\* only at the success exit; its status write leaves the stored conditions of every
\* other type as they were, so HasValidBundle and InvalidBundleContent entries of
\* earlier failures outlive later successes and Installed=True outlives a later
\* lookup, load or content failure.
C24_ExitTypeOnly ==
    []WritesOwnTypeOnly /\ [][StatusWriteFrame]_vars

\* C24 witness: the stored status holds HasValidBundle=Unknown of an earlier failed
\* lookup next to Installed=True of a later success, and a still later call that
\* failed to load the Bundle is at its exit with Installed=True in its copy.
C24_Witness ==
    \E bi \in BIs :
        /\ FindStatusCondition(biStore[bi].conds, TypeHasValidBundle).status
              = ConditionUnknown
        /\ FindStatusCondition(biStore[bi].conds, TypeInstalled).status = ConditionTrue
        /\ biStore[bi].installed = "pkg-a"
        /\ pass[bi].pc = "patch"
        /\ pass[bi].exit = "load"
        /\ FindStatusCondition(pass[bi].bi.conds, TypeInstalled).status = ConditionTrue
        /\ FindStatusCondition(pass[bi].bi.conds, TypeHasValidBundle).status
              = ConditionFalse

====
